---- MODULE Spec2Model ----
(***************************************************************************)
(* The Viewer component of src/src/App.js as a state machine: the React    *)
(* state (arMode, cameraActive, cameraError, canActivateAr), the three     *)
(* refs, the camera streams the browser has handed out, and the async      *)
(* continuations suspended at an await.  One action is one task of the     *)
(* browser's event loop: a click on the toggle, the settlement of a        *)
(* promise, an ar-status event, the unmount of the component.  React's     *)
(* re-render (and the effect of lines 61-86) is the tail of every action.  *)
(***************************************************************************)
EXTENDS Integers, FiniteSets

VARIABLES
    mounted,         \* the Viewer is mounted (route /viewer, line 185)
    capability,      \* what reading el.canActivateAR does on this device (line 66)
    arMode,          \* useState, line 46
    cameraActive,    \* useState, line 47
    cameraError,     \* useState, line 48
    canActivateAr,   \* useState, line 49
    modelViewerRef,  \* modelViewerRef.current is an element (line 50, set at 157)
    cameraVideoRef,  \* cameraVideoRef.current is an element (line 51, set at 173)
    videoSrcObject,  \* srcObject of the mounted <video> (line 94)
    mediaStreamRef,  \* mediaStreamRef.current (line 52): a stream, or NoStream
    live,            \* the acquired streams that still have an unstopped track
    pending,         \* async continuations suspended at an await (lines 91, 95, 130)
    listener,        \* the registered ar-status listener and the arMode it closed over
    starts,          \* number of startCameraPreview() calls so far
    activations,     \* number of el.activateAR() calls so far
    arRejected,      \* some activateAR() promise has rejected
    clicks,          \* number of clicks on the toggle so far
    clickedLabel,    \* the toggle's label when it was last clicked ("none" before)
    queried,         \* applyCapability (lines 64-72) has run
    asset,           \* gltf.scene (line 23): its contents' local bounding box
    position,        \* scene.position (line 38)
    scale,           \* scene.scale, uniform (line 39)
    renders          \* number of times Model (lines 20-42) ran on this asset

viewerVars == <<mounted, capability, arMode, cameraActive, cameraError,
                canActivateAr, modelViewerRef, cameraVideoRef, videoSrcObject,
                mediaStreamRef, live, pending, listener, starts, activations,
                arRejected, clicks, clickedLabel, queried>>

modelVars == <<asset, position, scale, renders>>

vars == <<viewerVars, modelVars>>

\* Bound on the number of startCameraPreview() calls of one run.
MaxStarts == 3

\* Bound on the number of times Model runs on one loaded asset.
MaxRenders == 3

\* Bound on the coordinates of an asset's bounding box.
MaxCoord == 2

NoStream == 0

NoListener == "none"

\* Streams are named by the startCameraPreview() call that acquired them.
StreamIds == 1..MaxStarts

\* err.message of a getUserMedia rejection (line 100); "" is an error without text.
GumMessages == {"", "Permission denied"}

\* err.message of a rejected video.play() (line 95).
PlayMessages == {"play interrupted"}

Capabilities == {"available", "unavailable", "throws"}

ArStatuses == {"session-started", "not-presenting", "failed"}

DefaultCameraError == "Camera access denied"

--------------------------------------------------------------------------
(* Derived values of one render                                            *)

\* line 59
EffectiveAr == arMode /\ canActivateAr

\* line 140 with its cameraActive test dropped (mutant of OrbitRendered)
OrbitRenderedOmitsCamera == ~EffectiveAr

\* line 140: the orbit canvas
OrbitRendered == ~EffectiveAr /\ ~cameraActive

\* line 153: the <model-viewer> element
ArRendered == EffectiveAr

\* line 171: the camera <video> element
CameraRendered == ~EffectiveAr /\ cameraActive

\* line 174: the inline error note, inside the camera region
ErrorNoteRendered == CameraRendered /\ cameraError # ""

\* The regions of lines 140-176 that the current render shows.
RenderedRegions ==
    IF ~mounted THEN {}
    ELSE (IF OrbitRendered THEN {"orbit"} ELSE {})
         \cup (IF ArRendered THEN {"ar"} ELSE {})
         \cup (IF CameraRendered THEN {"camera"} ELSE {})

\* The presentation mode: which of lines 140/153/171 holds.
Mode ==
    IF EffectiveAr THEN "AR"
    ELSE IF cameraActive THEN "CameraFallback" ELSE "Orbit"

\* line 136 with its cameraActive test dropped (mutant of Label)
LabelIgnoresCamera ==
    IF EffectiveAr THEN "Exit AR"
    ELSE IF canActivateAr THEN "View in AR" ELSE "Open Camera"

\* line 136
Label ==
    IF EffectiveAr THEN "Exit AR"
    ELSE IF canActivateAr THEN "View in AR"
    ELSE IF cameraActive THEN "Stop Camera" ELSE "Open Camera"

\* line 100 with err.message ignored (mutant of ErrorText)
ErrorTextAlwaysDefault(msg) == DefaultCameraError

\* line 100: err?.message || 'Camera access denied'
ErrorText(msg) == IF msg = "" THEN DefaultCameraError ELSE msg

\* lines 64-71 with setCanActivateAr(true) in the catch (mutant of
\* applyCapability)
applyCapabilityFailOpen == capability # "unavailable"

\* lines 64-71: !!el.canActivateAR, false when the read throws
applyCapability == capability = "available"

Cont(n, where) == [id |-> n, at |-> where]

--------------------------------------------------------------------------
(* Model, lines 20-42: numbers are exact rationals <<numerator, denominator>> *)

Abs(x) == IF x < 0 THEN -x ELSE x

RECURSIVE GCD(_, _)
GCD(a, b) == IF b = 0 THEN a ELSE GCD(b, a % b)

\* n/d in lowest terms, d > 0
Rat(n, d) == LET g == GCD(Abs(n), d) IN <<n \div g, d \div g>>

Zero == <<0, 1>>
One == <<1, 1>>
Two == <<2, 1>>

RAdd(x, y) == Rat(x[1] * y[2] + y[1] * x[2], x[2] * y[2])
RSub(x, y) == Rat(x[1] * y[2] - y[1] * x[2], x[2] * y[2])
RMul(x, y) == Rat(x[1] * y[1], x[2] * y[2])
\* x / y for y > 0
RDiv(x, y) == Rat(x[1] * y[2], x[2] * y[1])
RLess(x, y) == x[1] * y[2] < y[1] * x[2]
RMax(x, y) == IF RLess(x, y) THEN y ELSE x

Axes == 1..3

Coords == (0 - 1)..MaxCoord

\* The scene before useGLTF has resolved (Model is suspended, line 145).
NoAsset == [lo |-> <<>>, hi |-> <<>>]

\* The local bounding boxes a loaded scene may have (a point included).
Assets ==
    {a \in [lo : [Axes -> Coords], hi : [Axes -> Coords]] :
        \A i \in Axes : a.lo[i] <= a.hi[i]}

Origin == [i \in Axes |-> Zero]

\* line 31: Box3.setFromObject, the world box of the scene under its current
\* position p and uniform scale s > 0
WorldBox(a, p, s) ==
    [min |-> [i \in Axes |-> RAdd(p[i], RMul(s, Rat(a.lo[i], 1)))],
     max |-> [i \in Axes |-> RAdd(p[i], RMul(s, Rat(a.hi[i], 1)))]]

\* line 33: box.getSize
BoxSize(b) == [i \in Axes |-> RSub(b.max[i], b.min[i])]

\* line 35: box.getCenter
BoxCenter(b) == [i \in Axes |-> RDiv(RAdd(b.min[i], b.max[i]), Two)]

LargestAxis(v) == RMax(v[1], RMax(v[2], v[3]))

\* line 36: Math.max(size.x, size.y, size.z) || 1
MaxAxis(size) == IF LargestAxis(size) = Zero THEN One ELSE LargestAxis(size)

\* line 38: scene.position.sub(center)
NormalizedPosition(a, p, s) ==
    LET b == WorldBox(a, p, s)
    IN [i \in Axes |-> RSub(p[i], BoxCenter(b)[i])]

\* lines 36-39: scene.scale.setScalar((1 / maxAxis) * 2)
NormalizedScale(a, p, s) ==
    RMul(RDiv(One, MaxAxis(BoxSize(WorldBox(a, p, s)))), Two)

--------------------------------------------------------------------------
(* Pieces of handlers                                                      *)

\* React ignores a state setter called after the component unmounted.
SetCameraActive(b) == cameraActive' = IF mounted THEN b ELSE cameraActive

SetCameraError(m) == cameraError' = IF mounted THEN m ELSE cameraError

\* lines 105-112 with setCameraActive(!cameraActive) at line 111 (mutant of
\* StopResult)
StopResultToggles(h, l, a) ==
    [handle |-> NoStream,
     live   |-> IF h # NoStream THEN l \ {h} ELSE l,
     active |-> ~a]

\* lines 105-112 without the forEach of line 108 (mutant of StopResult)
StopResultKeepsTracks(h, l, a) ==
    [handle |-> NoStream, live |-> l, active |-> FALSE]

\* lines 105-112 as a function of the handle h, the live streams l and
\* cameraActive a: the held stream's tracks are stopped (108), the handle is
\* released (109), cameraActive is set false (111).
StopResult(h, l, a) ==
    [handle |-> NoStream,
     live   |-> IF h # NoStream THEN l \ {h} ELSE l,
     active |-> FALSE]

\* lines 105-112
stopCameraPreview ==
    LET r == StopResult(mediaStreamRef, live, cameraActive)
    IN /\ live' = r.live
       /\ mediaStreamRef' = r.handle
       /\ SetCameraActive(r.active)

\* lines 88-91: startCameraPreview up to its first await; rest is what else is
\* suspended once the call is.
startCameraPreview(rest) ==
    /\ starts < MaxStarts
    /\ starts' = starts + 1
    /\ stopCameraPreview
    /\ pending' = rest \cup {Cont(starts + 1, "getUserMedia")}

\* The commit of the re-render: the refs follow lines 153 and 171; a <video>
\* that is mounted anew has no srcObject, one that stays keeps src.  The
\* scene is left alone: Model is suspended until the asset has loaded.
Render(src) ==
    /\ UNCHANGED modelVars
    /\ modelViewerRef' = (mounted' /\ ArRendered')
    /\ cameraVideoRef' = (mounted' /\ CameraRendered')
    /\ videoSrcObject' = IF cameraVideoRef /\ mounted' /\ CameraRendered'
                         THEN src ELSE NoStream

\* lines 61-86 when arMode did not change: the effect does not run again.
EffectSkipped == UNCHANGED <<canActivateAr, listener, queried>>

\* lines 61-86 after a render that changed arMode to a: the old listener is
\* removed (83-85); with no element the effect returns (63), else it reads
\* the capability (72) and subscribes (82) with a closed over.
EffectRuns(a) ==
    LET el == mounted /\ a /\ canActivateAr
    IN /\ canActivateAr' = IF el THEN applyCapability ELSE canActivateAr
       /\ listener' = IF el THEN [arMode |-> a] ELSE NoListener
       /\ queried' = (queried \/ el)

--------------------------------------------------------------------------
\* lines 46-52 with useState(true) at line 49 (mutant of ViewerInit)
ViewerInitCapable ==
    /\ mounted = TRUE
    /\ capability \in Capabilities
    /\ arMode = FALSE
    /\ cameraActive = FALSE
    /\ cameraError = ""
    /\ canActivateAr = TRUE
    /\ modelViewerRef = FALSE
    /\ cameraVideoRef = FALSE
    /\ videoSrcObject = NoStream
    /\ mediaStreamRef = NoStream
    /\ live = {}
    /\ pending = {}
    /\ listener = NoListener
    /\ starts = 0
    /\ activations = 0
    /\ arRejected = FALSE
    /\ clicks = 0
    /\ clickedLabel = "none"
    /\ queried = FALSE

\* lines 46-52 and the first render and effect: the Viewer once mounted
ViewerInit ==
    /\ mounted = TRUE
    /\ capability \in Capabilities
    /\ arMode = FALSE
    /\ cameraActive = FALSE
    /\ cameraError = ""
    /\ canActivateAr = FALSE
    /\ modelViewerRef = FALSE
    /\ cameraVideoRef = FALSE
    /\ videoSrcObject = NoStream
    /\ mediaStreamRef = NoStream
    /\ live = {}
    /\ pending = {}
    /\ listener = NoListener
    /\ starts = 0
    /\ activations = 0
    /\ arRejected = FALSE
    /\ clicks = 0
    /\ clickedLabel = "none"
    /\ queried = FALSE

\* The Viewer is mounted and the asset has not loaded yet.
Init ==
    /\ ViewerInit
    /\ asset = NoAsset
    /\ position = Origin
    /\ scale = One
    /\ renders = 0

\* lines 121-134 with a toggle that, pressed in camera mode on a capable
\* device, re-evaluates the capability and turns the AR intent on without
\* leaving camera mode first (mutant of Click)
ClickEntersArDirectly ==
    /\ mounted
    /\ clicks' = clicks + 1
    /\ clickedLabel' = Label
    /\ UNCHANGED <<mounted, capability, cameraError, arRejected>>
    /\ IF cameraActive /\ applyCapability
       THEN /\ arMode' = TRUE
            /\ canActivateAr' = TRUE
            /\ queried' = TRUE
            /\ listener' = [arMode |-> TRUE]
            /\ UNCHANGED <<cameraActive, mediaStreamRef, live, starts, pending,
                           activations>>
       ELSE /\ startCameraPreview(pending)
            /\ EffectSkipped
            /\ UNCHANGED <<arMode, activations>>
    /\ Render(videoSrcObject)

\* lines 121-134: the toggle's onClick, up to its first await
Click ==
    /\ mounted
    /\ clicks' = clicks + 1
    /\ clickedLabel' = Label
    /\ UNCHANGED <<mounted, capability, cameraError, arRejected>>
    /\ IF EffectiveAr
       THEN /\ arMode' = FALSE
            /\ stopCameraPreview
            /\ EffectRuns(FALSE)
            /\ UNCHANGED <<pending, starts, activations>>
       ELSE IF canActivateAr /\ modelViewerRef
       THEN /\ arMode' = TRUE
            /\ activations < MaxStarts
            /\ activations' = activations + 1
            /\ pending' = pending \cup {Cont(activations + 1, "activateAR")}
            /\ EffectRuns(TRUE)
            /\ UNCHANGED <<cameraActive, mediaStreamRef, live, starts>>
       ELSE /\ startCameraPreview(pending)
            /\ EffectSkipped
            /\ UNCHANGED <<arMode, activations>>
    /\ Render(videoSrcObject)

\* lines 91-98: getUserMedia resolved with a new stream
GetUserMediaResolves(p) ==
    /\ p \in pending /\ p.at = "getUserMedia"
    /\ mediaStreamRef' = p.id
    /\ live' = live \cup {p.id}
    /\ IF cameraVideoRef
       THEN /\ pending' = (pending \ {p}) \cup {Cont(p.id, "play")}
            /\ UNCHANGED <<cameraError, cameraActive>>
       ELSE /\ pending' = pending \ {p}
            /\ SetCameraError("")
            /\ SetCameraActive(TRUE)
    /\ UNCHANGED <<mounted, capability, arMode, starts, activations, arRejected,
                   clicks, clickedLabel>>
    /\ EffectSkipped
    /\ Render(p.id)

\* lines 99-102, entered from the await of line 91
GetUserMediaRejects(p, msg) ==
    /\ p \in pending /\ p.at = "getUserMedia"
    /\ pending' = pending \ {p}
    /\ SetCameraError(ErrorText(msg))
    /\ SetCameraActive(FALSE)
    /\ UNCHANGED <<mounted, capability, arMode, mediaStreamRef, live, starts,
                   activations, arRejected, clicks, clickedLabel>>
    /\ EffectSkipped
    /\ Render(videoSrcObject)

\* lines 95-98: video.play() resolved.  A play() promise resolves only while
\* its element is in the document and still plays that stream; removing the
\* element or loading another srcObject rejects it (PlayRejects).
PlayResolves(p) ==
    /\ p \in pending /\ p.at = "play"
    /\ cameraVideoRef /\ videoSrcObject = p.id
    /\ pending' = pending \ {p}
    /\ SetCameraError("")
    /\ SetCameraActive(TRUE)
    /\ UNCHANGED <<mounted, capability, arMode, mediaStreamRef, live, starts,
                   activations, arRejected, clicks, clickedLabel>>
    /\ EffectSkipped
    /\ Render(videoSrcObject)

\* lines 99-102, entered from the await of line 95
PlayRejects(p, msg) ==
    /\ p \in pending /\ p.at = "play"
    /\ pending' = pending \ {p}
    /\ SetCameraError(ErrorText(msg))
    /\ SetCameraActive(FALSE)
    /\ UNCHANGED <<mounted, capability, arMode, mediaStreamRef, live, starts,
                   activations, arRejected, clicks, clickedLabel>>
    /\ EffectSkipped
    /\ Render(videoSrcObject)

\* The route changes (line 117): the Viewer unmounts.  The only cleanup is the
\* effect's (83-85); nothing calls stopCameraPreview.
Unmount ==
    /\ mounted
    /\ mounted' = FALSE
    /\ listener' = NoListener
    /\ UNCHANGED <<capability, arMode, cameraActive, cameraError, canActivateAr,
                   mediaStreamRef, live, pending, starts, activations, arRejected,
                   clicks, clickedLabel, queried>>
    /\ Render(NoStream)

\* line 130: el.activateAR() settled; on a rejection the catch starts the camera
ActivateARSettles(p, ok) ==
    /\ p \in pending /\ p.at = "activateAR"
    /\ arRejected' = (arRejected \/ ~ok)
    /\ IF ok
       THEN /\ pending' = pending \ {p}
            /\ UNCHANGED <<cameraActive, mediaStreamRef, live, starts>>
       ELSE startCameraPreview(pending \ {p})
    /\ UNCHANGED <<mounted, capability, arMode, cameraError, activations, clicks,
                   clickedLabel>>
    /\ EffectSkipped
    /\ Render(videoSrcObject)

\* lines 74-81: the element dispatches ar-status to the registered listener
onArStatus(status) ==
    /\ listener # NoListener
    /\ IF status \in {"failed", "not-presenting"} /\ listener.arMode
       THEN startCameraPreview(pending)
       ELSE UNCHANGED <<cameraActive, mediaStreamRef, live, starts, pending>>
    /\ UNCHANGED <<mounted, capability, arMode, cameraError, activations,
                   arRejected, clicks, clickedLabel>>
    /\ EffectSkipped
    /\ Render(videoSrcObject)

\* The steps of the AR surface: a settled activateAR() and a delivered ar-status.
ArSurfaceStep ==
    \/ \E p \in pending, ok \in BOOLEAN : ActivateARSettles(p, ok)
    \/ \E status \in ArStatuses : onArStatus(status)

Next ==
    \/ Click
    \/ \E p \in pending : GetUserMediaResolves(p)
    \/ \E p \in pending, msg \in GumMessages : GetUserMediaRejects(p, msg)
    \/ \E p \in pending : PlayResolves(p)
    \/ \E p \in pending, msg \in PlayMessages : PlayRejects(p, msg)
    \/ Unmount

Spec == Init /\ [][Next]_vars

--------------------------------------------------------------------------
(* The component's functions on enumerated inputs: Model run on a loaded   *)
(* asset of any bounding box, applyCapability run on an element of any     *)
(* device.                                                                 *)

\* useGLTF has resolved (line 21): the scene as loaded, not yet transformed
FunctionInit ==
    /\ ViewerInit
    /\ asset \in Assets
    /\ position = Origin
    /\ scale = One
    /\ renders = 0

\* lines 20-42: one run of the Model function component on the cached scene
ModelRenders ==
    /\ asset # NoAsset
    /\ renders < MaxRenders
    /\ renders' = renders + 1
    /\ position' = NormalizedPosition(asset, position, scale)
    /\ scale' = NormalizedScale(asset, position, scale)
    /\ UNCHANGED <<asset, viewerVars>>

\* lines 64-72: applyCapability() run on a mounted <model-viewer> element
CapabilityQueried ==
    /\ canActivateAr' = applyCapability
    /\ queried' = TRUE
    /\ UNCHANGED <<mounted, capability, arMode, cameraActive, cameraError,
                   modelViewerRef, cameraVideoRef, videoSrcObject,
                   mediaStreamRef, live, pending, listener, starts, activations,
                   arRejected, clicks, clickedLabel, modelVars>>

FunctionNext ==
    \/ ModelRenders
    \/ CapabilityQueried

FunctionSpec == FunctionInit /\ [][FunctionNext]_vars

--------------------------------------------------------------------------
TypeOK ==
    /\ mounted \in BOOLEAN /\ capability \in Capabilities
    /\ arMode \in BOOLEAN /\ cameraActive \in BOOLEAN /\ canActivateAr \in BOOLEAN
    /\ cameraError \in {"", DefaultCameraError} \cup GumMessages \cup PlayMessages
    /\ modelViewerRef \in BOOLEAN /\ cameraVideoRef \in BOOLEAN
    /\ videoSrcObject \in StreamIds \cup {NoStream}
    /\ mediaStreamRef \in StreamIds \cup {NoStream}
    /\ live \subseteq StreamIds
    /\ starts \in 0..MaxStarts /\ activations \in 0..MaxStarts /\ clicks \in Nat
    /\ arRejected \in BOOLEAN /\ queried \in BOOLEAN

\* No step of the AR surface is ever enabled: activateAR() is never pending and
\* no ar-status listener is ever registered, which is why Next has no such step.
ArSurfaceNeverSteps == ~ENABLED ArSurfaceStep

--------------------------------------------------------------------------
(* The claims                                                              *)

\* C1: while the Viewer is mounted exactly one of the three display regions
\* is rendered, the one that effectiveAr and cameraActive select, and the
\* <model-viewer> element and the camera <video> are never mounted together.
C1_ExactlyOneRegion ==
    mounted =>
        /\ Cardinality(RenderedRegions) = 1
        /\ RenderedRegions = {IF EffectiveAr THEN "ar"
                              ELSE IF cameraActive THEN "camera" ELSE "orbit"}
        /\ ~(modelViewerRef /\ cameraVideoRef)

\* C1 witness: after toggles and a camera completion the camera region is
\* the one rendered.
C1_Witness ==
    mounted /\ clicks >= 2 /\ RenderedRegions = {"camera"} /\ cameraVideoRef

\* C2: at most one acquired stream has an unstopped track.
C2_AtMostOneLiveStream == Cardinality(live) <= 1

\* C3: while the effective mode is Orbit or AR no acquired stream has an
\* unstopped track.
C3_NoCameraOutsideFallback ==
    (mounted /\ Mode \in {"Orbit", "AR"}) => live = {}

\* C4: once the toggle was pressed as an exit toggle (labelled "Exit AR" or
\* "Stop Camera") the AR intent is off, every track is stopped, the handle is
\* released, cameraActive is false and the mode is Orbit.
C4_ExitToggleLeavesOrbit ==
    (mounted /\ clickedLabel \in {"Exit AR", "Stop Camera"}) =>
        /\ ~arMode
        /\ live = {}
        /\ mediaStreamRef = NoStream
        /\ ~cameraActive
        /\ Mode = "Orbit"

\* C5: after the Viewer unmounted no camera stream has a live track.
C5_UnmountStopsCamera == ~mounted => live = {}

\* C6: on a device whose capability query returns true, when the camera is
\* active after the one toggle, it is because the AR activation was requested
\* and rejected: start() ran exactly once, the capability is still true, the
\* mode is CameraFallback and the label reads "Stop Camera".
C6_Scenario2 ==
    (mounted /\ capability = "available" /\ clicks = 1 /\ cameraActive) =>
        /\ activations = 1
        /\ arRejected
        /\ starts = 1
        /\ canActivateAr
        /\ Mode = "CameraFallback"
        /\ Label = "Stop Camera"

\* C7: on a device whose capability query returns true and whose activation
\* does not reject, after the one toggle the mode is AR, activation was
\* requested and getUserMedia was never requested.
C7_Scenario1 ==
    (mounted /\ capability = "available" /\ clicks = 1 /\ ~arRejected) =>
        /\ Mode = "AR"
        /\ activations = 1
        /\ starts = 0

C8_Step ==
    /\ (Click /\ ~canActivateAr) =>
          /\ starts' = starts + 1
          /\ Cont(starts + 1, "getUserMedia") \in pending'
          /\ activations' = activations
          /\ \A p \in pending' : p.at # "activateAR"
          /\ (~cameraActive => clickedLabel' = "Open Camera")
          /\ Label' = "Open Camera"
    /\ \A p \in pending :
          (mounted /\ ~canActivateAr
             /\ (GetUserMediaResolves(p) \/ PlayResolves(p))) =>
                (cameraActive' /\ Label' = "Stop Camera")

\* C8: while the capability is false a toggle calls startCameraPreview()
\* directly (a getUserMedia request is issued) and never activateAR(); the
\* label reads "Open Camera" until the acquisition succeeds and "Stop Camera"
\* once it has.
C8_Scenario3 == [][C8_Step]_vars

\* C8 witness: on a device without AR the toggle was pressed under the label
\* "Open Camera", no activation was requested, the acquisition succeeded and
\* the label now reads "Stop Camera".
C8_Witness ==
    /\ mounted /\ capability = "unavailable" /\ ~canActivateAr
    /\ clicks = 1 /\ clickedLabel = "Open Camera" /\ activations = 0
    /\ starts = 1 /\ pending = {} /\ cameraActive /\ Label = "Stop Camera"

C9_Step ==
    \A p \in pending, msg \in GumMessages :
        (mounted /\ GetUserMediaRejects(p, msg)) =>
            /\ Mode' # "AR"
            /\ cameraError' # ""
            /\ (msg # "" => cameraError' = msg)
            /\ ~cameraActive'
            /\ p \notin pending'

\* C9: when getUserMedia rejects, the mode afterwards is not AR, cameraError
\* is non-empty and is the rejection's message text (whenever the rejection
\* carries one), cameraActive is false, and the start() call has ended in its
\* catch block.
C9_Scenario4 == [][C9_Step]_vars

\* C9 witness: a permission error was caught: its text is the recorded
\* error, the camera is inactive and no start() is still suspended.
C9_Witness ==
    /\ mounted /\ cameraError = "Permission denied" /\ ~cameraActive
    /\ starts >= 1 /\ pending = {} /\ Mode = "Orbit"

StartFails(p) ==
    \/ \E msg \in GumMessages : GetUserMediaRejects(p, msg)
    \/ \E msg \in PlayMessages : PlayRejects(p, msg)

C11_Step ==
    \A p \in pending :
        (mounted /\ StartFails(p)) =>
            /\ ~cameraActive'
            /\ live' = {}
            /\ mediaStreamRef' = NoStream

\* C11: whenever start() fails (getUserMedia rejects, or play() rejects after
\* the stream was acquired) the session is inactive afterwards, no acquired
\* stream has a live track and the stream handle is empty.
C11_FailureLeavesNoStream == [][C11_Step]_vars

C12_Step ==
    \A p \in pending : (mounted /\ StartFails(p)) => ErrorNoteRendered'

\* C12: after start() fails the error note showing cameraError is rendered.
C12_FailureIsShown == [][C12_Step]_vars

C13_Step ==
    (mounted /\ Mode = "CameraFallback") =>
        /\ Mode' # "AR"
        /\ Click => /\ Mode' = "Orbit"
                    /\ mediaStreamRef' = NoStream
                    /\ mediaStreamRef \notin live'

\* C13: no single step taken in CameraFallback leaves the mode AR; a toggle
\* pressed in CameraFallback leaves the mode Orbit with the held stream
\* stopped and the handle released.
C13_NoDirectFallbackToAr == [][C13_Step]_vars

\* C13 witness: the toggle was pressed in CameraFallback and the mode is
\* Orbit, the handle released.
C13_Witness ==
    /\ mounted /\ clickedLabel = "Stop Camera" /\ Mode = "Orbit"
    /\ mediaStreamRef = NoStream /\ ~arMode

\* C14: the capability is always a boolean, and once applyCapability has run
\* it is true exactly when the read returned a truthy value: false when the
\* read raised, and the query itself completed.
C14_CapabilityFailClosed ==
    /\ canActivateAr \in BOOLEAN
    /\ queried => (canActivateAr <=> capability = "available")
    /\ (queried /\ capability = "throws") => canActivateAr = FALSE

\* C14 witness: applyCapability ran on an element whose read raises.
C14_Witness == queried /\ capability = "throws" /\ canActivateAr = FALSE

C15_Step ==
    (Click /\ mediaStreamRef = NoStream) =>
        /\ mediaStreamRef' = NoStream
        /\ live' = live
        /\ cameraActive' = cameraActive
        /\ cameraError' = cameraError

C15_Twice ==
    LET once == StopResult(mediaStreamRef, live, cameraActive)
        twice == StopResult(once.handle, once.live, once.active)
    IN /\ twice = once
       /\ mediaStreamRef = NoStream =>
             once = [handle |-> NoStream, live |-> live, active |-> cameraActive]

\* C15: stopCameraPreview called (by the toggle) while no stream is held
\* leaves the handle empty and the live streams, cameraActive and cameraError
\* as they were; and in every reachable state stopping twice gives what
\* stopping once gives.
C15_StopIdempotent == [][C15_Step]_vars /\ []C15_Twice

\* C15 witness: the toggle ran stopCameraPreview with no stream held and an
\* error recorded; the error is still there and nothing is live.
C15_Witness ==
    /\ mounted /\ clicks = 2 /\ cameraError = "Permission denied"
    /\ mediaStreamRef = NoStream /\ ~cameraActive /\ live = {}
    /\ pending = {Cont(2, "getUserMedia")}

HasExtent(a) == \E i \in Axes : a.lo[i] < a.hi[i]

\* C16: once Model has run on a loaded asset with a non-zero dimension, however
\* often, the world bounding box of the scene is centred at the origin, its
\* largest axis measures 2 and the scale is positive.
C16_Normalized ==
    (asset # NoAsset /\ renders >= 1 /\ HasExtent(asset)) =>
        LET b == WorldBox(asset, position, scale)
        IN /\ BoxCenter(b) = Origin
           /\ LargestAxis(BoxSize(b)) = Two
           /\ RLess(Zero, scale)

C17_Step ==
    (Click /\ mediaStreamRef # NoStream) =>
        /\ mediaStreamRef \notin live'
        /\ mediaStreamRef' = NoStream
        /\ Cont(starts + 1, "getUserMedia") \in pending'
        /\ (live = {mediaStreamRef} => live' = {})

\* C17: a start() invoked while a stream is held stops that stream's tracks
\* and releases the handle in the step that issues the new getUserMedia
\* request; if it was the only live stream, none is live while the request
\* is in flight.
C17_TeardownBeforeAcquire == [][C17_Step]_vars

\* C17 witness: the second start() ran with the first one's stream held: that
\* stream is stopped and the new request is in flight.
C17_Witness ==
    /\ mounted /\ starts = 2 /\ clickedLabel = "Stop Camera"
    /\ live = {} /\ mediaStreamRef = NoStream
    /\ pending = {Cont(2, "getUserMedia")}

\* C18: whenever cameraActive is true the <video> is mounted and its
\* srcObject is the held stream.
C18_StreamBoundToVideo ==
    (mounted /\ cameraActive) =>
        /\ cameraVideoRef
        /\ mediaStreamRef # NoStream
        /\ videoSrcObject = mediaStreamRef

C19_Step ==
    \A p \in pending :
        (/\ p.at = "getUserMedia"
         /\ p.id < starts
         /\ \/ GetUserMediaResolves(p)
            \/ \E msg \in GumMessages : GetUserMediaRejects(p, msg)) =>
            UNCHANGED <<mediaStreamRef, cameraActive, cameraError>>

\* C19: the completion of an acquisition that a newer start() has superseded
\* changes neither the stream handle nor cameraActive nor cameraError.
C19_SupersededIgnored == [][C19_Step]_vars

\* C20: arMode and canActivateAr are false in every reachable state, so
\* effectiveAr is false; the <model-viewer> element is never mounted, the
\* capability is never queried, no ar-status listener is registered and
\* activateAR() is never requested.
C20_ArUnreachable ==
    /\ ~arMode /\ ~canActivateAr /\ ~EffectiveAr
    /\ ~modelViewerRef /\ ~queried /\ listener = NoListener
    /\ activations = 0
    /\ \A p \in pending : p.at # "activateAR"

\* C20 witness: on a device that can present AR the toggle was pressed twice
\* and the camera came up instead.
C20_Witness ==
    /\ mounted /\ capability = "available" /\ clicks >= 2 /\ cameraActive
    /\ ~arMode /\ ~canActivateAr

====
